---- MODULE Spec2Model ----
(***************************************************************************)
(* key-node-list: a doubly-linked list whose nodes live in a map from key  *)
(* to node and are linked by keys (src/src/list.rs, src/src/cursor.rs,     *)
(* src/src/map.rs, src/src/node.rs, src/src/iter.rs).                      *)
(*                                                                         *)
(* The state is one KeyNodeList<K, ValueNode<K, V>> (nodes, head, tail),   *)
(* at most one live cursor over it (Rust's borrow rules: a CursorMut       *)
(* borrows the list exclusively, a Cursor borrows it shared, so the list's *)
(* own mutating methods are callable only while no cursor is alive), the   *)
(* value returned by the last call, and whether a call has panicked.  A    *)
(* panic (an unwrap() on None) ends the run: the list stays as the panic   *)
(* left it and no further call is made.                                    *)
(***************************************************************************)
EXTENDS Integers, Sequences, FiniteSets, TLC

\* Bound of the model: keys are 1..MaxKey.
MaxKey == 3
\* At most MaxCalls calls that may change the list are made (moving, creating and
\* dropping a cursor are not counted).
MaxCalls == 4

Keys == 1..MaxKey
\* The payload type V is opaque to the list: two payloads tell any mix-up apart.
Values == {"a", "b"}
\* The value field of a returned record that carries no payload.
NoValue == "-"

\* Option<K>::None; Some(k) is the key k itself.
None == 0

VARIABLES
    nodes,      \* KeyNodeList.nodes: the map K -> ValueNode{value, prev, next}
    head,       \* KeyNodeList.head: Option<K>
    tail,       \* KeyNodeList.tail: Option<K>
    cur,        \* which cursor borrows the list: "none", "shared" (Cursor), "mut" (CursorMut)
    key,        \* the cursor's key: Option<K> (None while no cursor is alive)
    ret,        \* the value returned by the last call
    panicked,   \* TRUE once an unwrap() inside a call found None
    calls,      \* how many calls that may change the list were made so far
    mode,       \* history: "new", "back" (only successful push_back so far), "front", "mixed"
    hist        \* history: the <<key, value>> pairs pushed while mode is "back" or "front"

vars == <<nodes, head, tail, cur, key, ret, panicked, calls, mode, hist>>

----------------------------------------------------------------------------
(* Returned values.  Every one is a record of the same shape; of a returned *)
(* node the payload is recorded (its links are read where the code reads   *)
(* them, inside remove_current).                                           *)

RetUnit == [kind |-> "Unit", k |-> None, value |-> NoValue]
RetOk == [kind |-> "Ok", k |-> None, value |-> NoValue]
RetErr(k, v) == [kind |-> "Err", k |-> k, value |-> v]
RetNone == [kind |-> "None", k |-> None, value |-> NoValue]
RetSome(k, n) == [kind |-> "Some", k |-> k, value |-> n.value]
RetPanic == [kind |-> "Panic", k |-> None, value |-> NoValue]

\* ValueNode::new(value): both links start as None.
ValueNode_new(v) == [value |-> v, prev |-> None, next |-> None]

\* The outcome of a list method: the list afterwards, what it returned and
\* whether it panicked (then the list is as the panic left it).
Res(ns, h, t, r) == [nodes |-> ns, head |-> h, tail |-> t, ret |-> r, panic |-> FALSE]
Panic(ns, h, t) == [nodes |-> ns, head |-> h, tail |-> t, ret |-> RetPanic, panic |-> TRUE]

\* The outcome of a cursor method: the same, with the cursor's key.
CRes(ns, h, t, c, r) ==
    [nodes |-> ns, head |-> h, tail |-> t, key |-> c, ret |-> r, panic |-> FALSE]
CPanic(ns, h, t, c) ==
    [nodes |-> ns, head |-> h, tail |-> t, key |-> c, ret |-> RetPanic, panic |-> TRUE]

\* A remove_entry that leaves the entry in the map.
MapRemove_keep(ns, k) == ns

\* Map::remove_entry on the key k of ns.
MapRemove(ns, k) == [j \in (DOMAIN ns) \ {k} |-> ns[j]]

\* KeyNodeList::contains_key.
contains_key(ns, k) == k \in DOMAIN ns

\* impl Map for HashMap: insert refuses a key that is present.
map_insert_overwrite(ns, k, v) ==
    [ok |-> TRUE,
     nodes |-> [j \in (DOMAIN ns) \cup {k} |-> IF j = k THEN ValueNode_new(v) ELSE ns[j]]]

map_insert(ns, k, v) ==
    IF contains_key(ns, k)
    THEN [ok |-> FALSE, nodes |-> ns]
    ELSE [ok |-> TRUE,
          nodes |-> [j \in (DOMAIN ns) \cup {k} |-> IF j = k THEN ValueNode_new(v) ELSE ns[j]]]

----------------------------------------------------------------------------
(* KeyNodeList methods (src/src/list.rs).  L is [nodes, head, tail].       *)

\* push_front: insert, head.replace(key), relink the old head or set tail,
\* then set the new node's links.
push_front(L, k, v) ==
    LET ins == map_insert(L.nodes, k, v)
        next == L.head
    IN  IF ~ins.ok THEN Res(L.nodes, L.head, L.tail, RetErr(k, v))
        ELSE IF next # None /\ next \notin DOMAIN ins.nodes
        THEN Panic(ins.nodes, k, L.tail)
        ELSE LET n2 == IF next # None THEN [ins.nodes EXCEPT ![next].prev = k]
                                      ELSE ins.nodes
                 t2 == IF next # None THEN L.tail ELSE k
                 n3 == [n2 EXCEPT ![k].prev = None, ![k].next = next]
             IN  Res(n3, k, t2, RetOk)

\* A push_back that forgets to relink the old tail.
push_back_no_relink(L, k, v) ==
    LET ins == map_insert(L.nodes, k, v)
        prev == L.tail
    IN  IF ~ins.ok THEN Res(L.nodes, L.head, L.tail, RetErr(k, v))
        ELSE LET h2 == IF prev # None THEN L.head ELSE k
                 n3 == [ins.nodes EXCEPT ![k].prev = prev, ![k].next = None]
             IN  Res(n3, h2, k, RetOk)

\* push_back: the mirror image of push_front.
push_back(L, k, v) ==
    LET ins == map_insert(L.nodes, k, v)
        prev == L.tail
    IN  IF ~ins.ok THEN Res(L.nodes, L.head, L.tail, RetErr(k, v))
        ELSE IF prev # None /\ prev \notin DOMAIN ins.nodes
        THEN Panic(ins.nodes, L.head, k)
        ELSE LET n2 == IF prev # None THEN [ins.nodes EXCEPT ![prev].next = k]
                                      ELSE ins.nodes
                 h2 == IF prev # None THEN L.head ELSE k
                 n3 == [n2 EXCEPT ![k].prev = prev, ![k].next = None]
             IN  Res(n3, h2, k, RetOk)

\* pop_front: head.take(), remove the node, head = node.next.
pop_front(L) ==
    IF L.head = None THEN Res(L.nodes, L.head, L.tail, RetNone)
    ELSE IF L.head \notin DOMAIN L.nodes THEN Panic(L.nodes, None, L.tail)
    ELSE LET k == L.head
             node == L.nodes[k]
         IN  Res(MapRemove(L.nodes, k), node.next, L.tail, RetSome(k, node))

\* pop_back: tail.take(), remove the node, tail = node.prev.
pop_back(L) ==
    IF L.tail = None THEN Res(L.nodes, L.head, L.tail, RetNone)
    ELSE IF L.tail \notin DOMAIN L.nodes THEN Panic(L.nodes, L.head, None)
    ELSE LET k == L.tail
             node == L.nodes[k]
         IN  Res(MapRemove(L.nodes, k), L.head, node.prev, RetSome(k, node))

\* remove: remove_entry, then relink the neighbour on each side (or head / tail).
remove(L, k) ==
    IF ~contains_key(L.nodes, k) THEN Res(L.nodes, L.head, L.tail, RetNone)
    ELSE LET n == L.nodes[k]
             n1 == MapRemove(L.nodes, k)
         IN  IF n.prev # None /\ n.prev \notin DOMAIN n1
             THEN Panic(n1, L.head, L.tail)
             ELSE LET n2 == IF n.prev # None THEN [n1 EXCEPT ![n.prev].next = n.next]
                                             ELSE n1
                      h2 == IF n.prev # None THEN L.head ELSE n.next
                  IN  IF n.next # None /\ n.next \notin DOMAIN n2
                      THEN Panic(n2, h2, L.tail)
                      ELSE LET n3 == IF n.next # None
                                     THEN [n2 EXCEPT ![n.next].prev = n.prev]
                                     ELSE n2
                               t3 == IF n.next # None THEN L.tail ELSE n.prev
                           IN  Res(n3, h2, t3, RetSome(k, n))

\* A clear that empties the map and forgets head and tail.
clear_store_only(L) == Res(<<>>, L.head, L.tail, RetUnit)

\* clear: empty the map, head = tail = None.
clear(L) == Res(<<>>, None, None, RetUnit)

----------------------------------------------------------------------------
(* Cursor and CursorMut methods (src/src/cursor.rs).  C is [nodes, head,   *)
(* tail, key]: the list the cursor borrows and the cursor's key.           *)

ListOf(C) == [nodes |-> C.nodes, head |-> C.head, tail |-> C.tail]

\* The outcome r of a list method called through a cursor whose key is c.
WithKey(r, c) ==
    [nodes |-> r.nodes, head |-> r.head, tail |-> r.tail, key |-> c,
     ret |-> r.ret, panic |-> r.panic]

\* move_next: from null to head; from a key to its node's next (None when
\* the key has no node).  The value is the cursor's new key.
move_next(C) ==
    IF C.key = None THEN C.head
    ELSE IF C.key \in DOMAIN C.nodes THEN C.nodes[C.key].next
    ELSE None

\* move_prev: from null to tail; from a key to its node's prev.
move_prev(C) ==
    IF C.key = None THEN C.tail
    ELSE IF C.key \in DOMAIN C.nodes THEN C.nodes[C.key].prev
    ELSE None

\* An insert_after that appends at the back of the list wherever the cursor is.
insert_after_at_back(C, k, v) == WithKey(push_back(ListOf(C), k, v), C.key)

\* insert_after: insert, take the next link of the cursor's node (or head),
\* point it at the new key, relink the next node (or tail), set the new
\* node's links.
insert_after(C, k, v) ==
    LET ins == map_insert(C.nodes, k, v)
    IN  IF ~ins.ok THEN CRes(C.nodes, C.head, C.tail, C.key, RetErr(k, v))
        ELSE IF C.key # None /\ C.key \notin DOMAIN ins.nodes
        THEN CPanic(ins.nodes, C.head, C.tail, C.key)
        ELSE LET next == IF C.key # None THEN ins.nodes[C.key].next ELSE C.head
                 n1 == IF C.key # None THEN [ins.nodes EXCEPT ![C.key].next = k]
                                       ELSE ins.nodes
                 h1 == IF C.key # None THEN C.head ELSE k
             IN  IF next # None /\ next \notin DOMAIN n1
                 THEN CPanic(n1, h1, C.tail, C.key)
                 ELSE LET n2 == IF next # None THEN [n1 EXCEPT ![next].prev = k] ELSE n1
                          t2 == IF next # None THEN C.tail ELSE k
                          n3 == [n2 EXCEPT ![k].prev = C.key, ![k].next = next]
                      IN  CRes(n3, h1, t2, C.key, RetOk)

\* An insert_before that writes tail wherever the new node goes.
insert_before_sets_tail(C, k, v) ==
    LET ins == map_insert(C.nodes, k, v)
    IN  IF ~ins.ok THEN CRes(C.nodes, C.head, C.tail, C.key, RetErr(k, v))
        ELSE IF C.key # None /\ C.key \notin DOMAIN ins.nodes
        THEN CPanic(ins.nodes, C.head, C.tail, C.key)
        ELSE LET prev == IF C.key # None THEN ins.nodes[C.key].prev ELSE C.tail
                 n1 == IF C.key # None THEN [ins.nodes EXCEPT ![C.key].prev = k]
                                       ELSE ins.nodes
             IN  IF prev # None /\ prev \notin DOMAIN n1
                 THEN CPanic(n1, C.head, k, C.key)
                 ELSE LET n2 == IF prev # None THEN [n1 EXCEPT ![prev].next = k] ELSE n1
                          h2 == IF prev # None THEN C.head ELSE k
                          n3 == [n2 EXCEPT ![k].prev = prev, ![k].next = C.key]
                      IN  CRes(n3, h2, k, C.key, RetOk)

\* insert_before: the mirror image of insert_after.
insert_before(C, k, v) ==
    LET ins == map_insert(C.nodes, k, v)
    IN  IF ~ins.ok THEN CRes(C.nodes, C.head, C.tail, C.key, RetErr(k, v))
        ELSE IF C.key # None /\ C.key \notin DOMAIN ins.nodes
        THEN CPanic(ins.nodes, C.head, C.tail, C.key)
        ELSE LET prev == IF C.key # None THEN ins.nodes[C.key].prev ELSE C.tail
                 n1 == IF C.key # None THEN [ins.nodes EXCEPT ![C.key].prev = k]
                                       ELSE ins.nodes
                 t1 == IF C.key # None THEN C.tail ELSE k
             IN  IF prev # None /\ prev \notin DOMAIN n1
                 THEN CPanic(n1, C.head, t1, C.key)
                 ELSE LET n2 == IF prev # None THEN [n1 EXCEPT ![prev].next = k] ELSE n1
                          h2 == IF prev # None THEN C.head ELSE k
                          n3 == [n2 EXCEPT ![k].prev = prev, ![k].next = C.key]
                      IN  CRes(n3, h2, t1, C.key, RetOk)

\* remove_current: key.take(); list.remove(&k).unwrap(); key = the removed
\* node's next.
remove_current(C) ==
    IF C.key = None THEN CRes(C.nodes, C.head, C.tail, None, RetNone)
    ELSE LET r == remove(ListOf(C), C.key)
         IN  IF r.panic THEN WithKey(r, None)
             ELSE IF r.ret = RetNone THEN CPanic(r.nodes, r.head, r.tail, None)
             ELSE WithKey(r, C.nodes[C.key].next)

\* A CursorMut::push_front that moves the cursor to the key it was given.
cursor_push_front_moving(C, k, v) == WithKey(push_front(ListOf(C), k, v), k)

\* CursorMut::push_front / push_back: the list's own, the key untouched.
cursor_push_front(C, k, v) == WithKey(push_front(ListOf(C), k, v), C.key)
cursor_push_back(C, k, v) == WithKey(push_back(ListOf(C), k, v), C.key)

\* CursorMut::pop_front: move_next first when the cursor is at head.
cursor_pop_front(C) ==
    WithKey(pop_front(ListOf(C)), IF C.head = C.key THEN move_next(C) ELSE C.key)

\* CursorMut::pop_back: the key becomes None first when the cursor is at tail.
cursor_pop_back(C) ==
    WithKey(pop_back(ListOf(C)), IF C.tail = C.key THEN None ELSE C.key)

----------------------------------------------------------------------------
(* Iteration (src/src/iter.rs).                                            *)

\* Iter::next repeated from the key k: the keys yielded, at most fuel of them.
RECURSIVE IterFrom(_, _, _)
IterFrom(ns, k, fuel) ==
    IF k = None \/ k \notin DOMAIN ns \/ fuel = 0 THEN <<>>
    ELSE <<k>> \o IterFrom(ns, ns[k].next, fuel - 1)

\* KeyNodeList::iter / keys: the keys from head.  One more than the number
\* of nodes is allowed, so that a walk yielding more than len() keys shows.
iter_keys(ns, h) == IterFrom(ns, h, Cardinality(DOMAIN ns) + 1)

\* KeyNodeList::iter: the <<key, value>> pairs from head.
iter_pairs(ns, h) ==
    LET ks == iter_keys(ns, h) IN [i \in 1..Len(ks) |-> <<ks[i], ns[ks[i]].value>>]

----------------------------------------------------------------------------
TypeOK ==
    /\ DOMAIN nodes \subseteq Keys
    /\ \A k \in DOMAIN nodes :
          /\ nodes[k].value \in Values
          /\ nodes[k].prev \in Keys \cup {None}
          /\ nodes[k].next \in Keys \cup {None}
    /\ head \in Keys \cup {None}
    /\ tail \in Keys \cup {None}
    /\ cur \in {"none", "shared", "mut"}
    /\ key \in Keys \cup {None}
    /\ panicked \in BOOLEAN
    /\ calls \in 0..MaxCalls
    /\ mode \in {"new", "back", "front", "mixed"}

\* KeyNodeList::new(): an empty map, head = tail = None; no cursor yet.
Init ==
    /\ nodes = <<>>
    /\ head = None
    /\ tail = None
    /\ cur = "none"
    /\ key = None
    /\ ret = RetUnit
    /\ panicked = FALSE
    /\ calls = 0
    /\ mode = "new"
    /\ hist = <<>>

List == [nodes |-> nodes, head |-> head, tail |-> tail]
Cursor == [nodes |-> nodes, head |-> head, tail |-> tail, key |-> key]

\* The history is about the list's own push_back / push_front on a new list.
Mixed == mode' = "mixed" /\ hist' = <<>>

\* One more call that may change the list.
Count == calls < MaxCalls /\ calls' = calls + 1

\* The list takes the outcome r of one of its own methods.
ListStep(r) ==
    /\ nodes' = r.nodes
    /\ head' = r.head
    /\ tail' = r.tail
    /\ ret' = r.ret
    /\ panicked' = r.panic
    /\ UNCHANGED <<cur, key>>

\* The list and the cursor take the outcome r of a CursorMut method.
CursorStep(r) ==
    /\ nodes' = r.nodes
    /\ head' = r.head
    /\ tail' = r.tail
    /\ key' = r.key
    /\ ret' = r.ret
    /\ panicked' = r.panic
    /\ UNCHANGED cur
    /\ Mixed

PushFront(k, v) ==
    /\ ~panicked /\ cur = "none" /\ Count
    /\ LET r == push_front(List, k, v)
       IN  /\ ListStep(r)
           /\ IF r.ret = RetOk /\ mode \in {"new", "front"}
              THEN mode' = "front" /\ hist' = Append(hist, <<k, v>>)
              ELSE Mixed

PushBack(k, v) ==
    /\ ~panicked /\ cur = "none" /\ Count
    /\ LET r == push_back(List, k, v)
       IN  /\ ListStep(r)
           /\ IF r.ret = RetOk /\ mode \in {"new", "back"}
              THEN mode' = "back" /\ hist' = Append(hist, <<k, v>>)
              ELSE Mixed

PopFront ==
    /\ ~panicked /\ cur = "none" /\ Count
    /\ ListStep(pop_front(List))
    /\ Mixed

PopBack ==
    /\ ~panicked /\ cur = "none" /\ Count
    /\ ListStep(pop_back(List))
    /\ Mixed

Remove(k) ==
    /\ ~panicked /\ cur = "none" /\ Count
    /\ ListStep(remove(List, k))
    /\ Mixed

Clear ==
    /\ ~panicked /\ cur = "none" /\ Count
    /\ ListStep(clear(List))
    /\ Mixed

\* A cursor is created with the key c; m is "shared" (Cursor) or "mut" (CursorMut).
NewCursor(m, c) ==
    /\ ~panicked /\ cur = "none"
    /\ cur' = m
    /\ key' = c
    /\ ret' = RetUnit
    /\ UNCHANGED <<nodes, head, tail, panicked, calls, mode, hist>>

\* KeyNodeList::cursor(key) / cursor_mut(key).
CursorAt(m, k) == NewCursor(m, IF contains_key(nodes, k) THEN k ELSE None)

\* KeyNodeList::cursor_front / cursor_front_mut.
CursorFront(m) == NewCursor(m, head)

\* KeyNodeList::cursor_back / cursor_back_mut.
CursorBack(m) == NewCursor(m, tail)

\* The cursor goes out of scope and the borrow of the list ends.
DropCursor ==
    /\ ~panicked /\ cur # "none"
    /\ cur' = "none"
    /\ key' = None
    /\ ret' = RetUnit
    /\ UNCHANGED <<nodes, head, tail, panicked, calls, mode, hist>>

MoveNext ==
    /\ ~panicked /\ cur # "none"
    /\ key' = move_next(Cursor)
    /\ ret' = RetUnit
    /\ UNCHANGED <<nodes, head, tail, cur, panicked, calls, mode, hist>>

MovePrev ==
    /\ ~panicked /\ cur # "none"
    /\ key' = move_prev(Cursor)
    /\ ret' = RetUnit
    /\ UNCHANGED <<nodes, head, tail, cur, panicked, calls, mode, hist>>

InsertAfter(k, v) ==
    /\ ~panicked /\ cur = "mut" /\ Count
    /\ CursorStep(insert_after(Cursor, k, v))

InsertBefore(k, v) ==
    /\ ~panicked /\ cur = "mut" /\ Count
    /\ CursorStep(insert_before(Cursor, k, v))

RemoveCurrent ==
    /\ ~panicked /\ cur = "mut" /\ Count
    /\ CursorStep(remove_current(Cursor))

CursorPushFront(k, v) ==
    /\ ~panicked /\ cur = "mut" /\ Count
    /\ CursorStep(cursor_push_front(Cursor, k, v))

CursorPushBack(k, v) ==
    /\ ~panicked /\ cur = "mut" /\ Count
    /\ CursorStep(cursor_push_back(Cursor, k, v))

CursorPopFront ==
    /\ ~panicked /\ cur = "mut" /\ Count
    /\ CursorStep(cursor_pop_front(Cursor))

CursorPopBack ==
    /\ ~panicked /\ cur = "mut" /\ Count
    /\ CursorStep(cursor_pop_back(Cursor))

Next ==
    \/ \E k \in Keys, v \in Values : PushFront(k, v)
    \/ \E k \in Keys, v \in Values : PushBack(k, v)
    \/ PopFront
    \/ PopBack
    \/ \E k \in Keys : Remove(k)
    \/ Clear
    \/ \E m \in {"shared", "mut"}, k \in Keys : CursorAt(m, k)
    \/ \E m \in {"shared", "mut"} : CursorFront(m)
    \/ \E m \in {"shared", "mut"} : CursorBack(m)
    \/ DropCursor
    \/ MoveNext
    \/ MovePrev
    \/ \E k \in Keys, v \in Values : InsertAfter(k, v)
    \/ \E k \in Keys, v \in Values : InsertBefore(k, v)
    \/ RemoveCurrent
    \/ \E k \in Keys, v \in Values : CursorPushFront(k, v)
    \/ \E k \in Keys, v \in Values : CursorPushBack(k, v)
    \/ CursorPopFront
    \/ CursorPopBack

Spec == Init /\ [][Next]_vars

----------------------------------------------------------------------------
(* What the properties below speak about.                                  *)

Reverse(s) == [i \in 1..Len(s) |-> s[Len(s) + 1 - i]]
Last(s) == IF s = <<>> THEN None ELSE s[Len(s)]
First(s) == IF s = <<>> THEN None ELSE s[1]
Without(s, k) == SelectSeq(s, LAMBDA x : x # k)
Range(s) == {s[i] : i \in 1..Len(s)}

\* The keys met from the key k following prev links, at most fuel of them.
RECURSIVE BackFrom(_, _, _)
BackFrom(ns, k, fuel) ==
    IF k = None \/ k \notin DOMAIN ns \/ fuel = 0 THEN <<>>
    ELSE <<k>> \o BackFrom(ns, ns[k].prev, fuel - 1)

Forward == iter_keys(nodes, head)
Backward == BackFrom(nodes, tail, Cardinality(DOMAIN nodes) + 1)

\* The list is as it was.
ListUnchanged == nodes' = nodes /\ head' = head /\ tail' = tail

----------------------------------------------------------------------------
\* C1: in every state reached from the empty list by the public mutating
\* operations, following next from head visits every key of the store exactly
\* once and ends at tail, and following prev from tail visits the same keys in
\* the reverse order.
C1_WalksCoverStore ==
    ~panicked =>
        /\ Len(Forward) = Cardinality(DOMAIN nodes)
        /\ Range(Forward) = DOMAIN nodes
        /\ Last(Forward) = tail
        /\ Backward = Reverse(Forward)

\* C2: after every public operation head is None exactly when the store is
\* empty, and so is tail (front_key() and back_key() are None exactly when
\* is_empty()).
C2_HeadTailNoneIffEmpty ==
    ~panicked =>
        /\ (head = None <=> DOMAIN nodes = {})
        /\ (tail = None <=> DOMAIN nodes = {})

\* C3: after every public operation every link of a node names a key of the
\* store and the links agree: next = Some(j) at k means j exists with
\* prev = Some(k), and prev = Some(i) at k means i exists with next = Some(k).
C3_LinksMutuallyConsistent ==
    ~panicked =>
        \A k \in DOMAIN nodes :
            /\ nodes[k].next # None =>
                  /\ nodes[k].next \in DOMAIN nodes
                  /\ nodes[nodes[k].next].prev = k
            /\ nodes[k].prev # None =>
                  /\ nodes[k].prev \in DOMAIN nodes
                  /\ nodes[nodes[k].prev].next = k

\* C4: after every public operation the node stored at head has prev = None
\* and the node stored at tail has next = None.
C4_EndsHaveNoOuterLink ==
    ~panicked =>
        /\ head \in DOMAIN nodes => nodes[head].prev = None
        /\ tail \in DOMAIN nodes => nodes[tail].next = None

\* C5: every insertion (list push_front, push_back; cursor insert_after,
\* insert_before, push_front, push_back) of a key that is already in the store
\* returns an error with the key and value passed in and leaves the store, the
\* links, the payloads, head, tail and the cursor as they were.  Stated of the
\* outcome each insertion has in every reachable state, for every key of the
\* store and every value.
C5_DuplicateInsertRejected ==
    \A k \in DOMAIN nodes, v \in Values :
        /\ push_front(List, k, v) = Res(nodes, head, tail, RetErr(k, v))
        /\ push_back(List, k, v) = Res(nodes, head, tail, RetErr(k, v))
        /\ insert_after(Cursor, k, v) = CRes(nodes, head, tail, key, RetErr(k, v))
        /\ insert_before(Cursor, k, v) = CRes(nodes, head, tail, key, RetErr(k, v))
        /\ cursor_push_front(Cursor, k, v) = CRes(nodes, head, tail, key, RetErr(k, v))
        /\ cursor_push_back(Cursor, k, v) = CRes(nodes, head, tail, key, RetErr(k, v))

\* C5 happens: a CursorMut at a key of a list of two or more keys has just had
\* an insertion refused for a key of the store.
C5_Witness ==
    /\ ret.kind = "Err"
    /\ ret.k \in DOMAIN nodes
    /\ cur = "mut"
    /\ key \in DOMAIN nodes
    /\ Cardinality(DOMAIN nodes) >= 2

\* C6: from a new list, push_back of distinct keys k1..kn makes forward
\* iteration yield the pairs in the order pushed, and push_front makes it yield
\* them in the reverse order, each key with the value it was pushed with.
C6_PushOrder ==
    /\ mode = "back" => iter_pairs(nodes, head) = hist
    /\ mode = "front" => iter_pairs(nodes, head) = Reverse(hist)

\* C6 happens: three pairs were pushed at the front of a new list, with
\* different values.
C6_Witness ==
    /\ mode = "front"
    /\ Len(hist) = 3
    /\ hist[1][2] # hist[2][2]

\* C7: whenever the list holds no elements (len() = 0), pop_front and pop_back
\* return None, remove of a key not in the store returns None and
\* remove_current on a null cursor returns None, each completing normally and
\* leaving the list unchanged.
C7_EmptyListGivesNone ==
    [][(DOMAIN nodes = {}) =>
          /\ (PopFront \/ PopBack) =>
                (ret' = RetNone /\ ~panicked' /\ ListUnchanged)
          /\ \A k \in Keys : Remove(k) =>
                (ret' = RetNone /\ ~panicked' /\ ListUnchanged)
          /\ (RemoveCurrent /\ key = None) =>
                (ret' = RetNone /\ ~panicked' /\ ListUnchanged)]_vars

\* C8: on a non-empty list whose forward key sequence is s, pop_front returns
\* the pair at the first key of s and leaves the sequence s without its first
\* element, pop_back returns the pair at the last key and leaves s without its
\* last element; head and tail afterwards are the first and last keys of what
\* remains (both None when nothing remains).
C8_PopEnds ==
    [][(DOMAIN nodes # {} /\ Forward # <<>>) =>
          /\ PopFront =>
                /\ ret' = RetSome(Forward[1], nodes[Forward[1]])
                /\ Forward' = Tail(Forward)
                /\ head' = First(Tail(Forward))
                /\ tail' = Last(Tail(Forward))
          /\ PopBack =>
                /\ ret' = RetSome(Last(Forward), nodes[Last(Forward)])
                /\ Forward' = SubSeq(Forward, 1, Len(Forward) - 1)
                /\ head' = First(SubSeq(Forward, 1, Len(Forward) - 1))
                /\ tail' = Last(SubSeq(Forward, 1, Len(Forward) - 1))]_vars

\* C9: remove(key) of a key in the list returns that key with its node and
\* links the removed node's neighbours to each other: the forward key sequence
\* afterwards is the one before without that key, head or tail following when
\* the key was first or last.
C9_RemoveRelinks ==
    [][\A k \in DOMAIN nodes :
          Remove(k) =>
             /\ ret' = RetSome(k, nodes[k])
             /\ Forward' = Without(Forward, k)
             /\ head' = First(Without(Forward, k))
             /\ tail' = Last(Without(Forward, k))]_vars

\* C10: after any sequence of cursor and list operations a cursor's position
\* is null or a key that is in the list (key() never returns a removed key,
\* node() is None only for the null cursor).
C10_CursorKeyInList ==
    (~panicked /\ cur # "none") => (key = None \/ key \in DOMAIN nodes)

----------------------------------------------------------------------------
(* Positions in forward order, for the claims about cursors.               *)

\* Where the key c stands in the sequence s (0 when it is not in s).
IndexOf(s, c) == IF c \in Range(s) THEN CHOOSE i \in 1..Len(s) : s[i] = c ELSE 0

\* The position after c in the order s: from null (None) the first key, from
\* the last key null.  A key that is not in s has no successor: NoPosition.
NoPosition == MaxKey + 1
Succ(s, c) ==
    IF c = None THEN First(s)
    ELSE IF c \notin Range(s) THEN NoPosition
    ELSE IF IndexOf(s, c) = Len(s) THEN None
    ELSE s[IndexOf(s, c) + 1]

\* The position before c in the order s: from null the last key, from the
\* first key null.
Pred(s, c) ==
    IF c = None THEN Last(s)
    ELSE IF c \notin Range(s) THEN NoPosition
    ELSE IF IndexOf(s, c) = 1 THEN None
    ELSE s[IndexOf(s, c) - 1]

\* The cursor of the current list put at the position c.
CursorAtPos(c) == [nodes |-> nodes, head |-> head, tail |-> tail, key |-> c]

\* The positions a cursor takes in n calls of move_next, starting from c.
RECURSIVE MoveNextWalk(_, _)
MoveNextWalk(c, n) ==
    IF n = 0 THEN <<>>
    ELSE LET c2 == move_next(CursorAtPos(c)) IN <<c2>> \o MoveNextWalk(c2, n - 1)

----------------------------------------------------------------------------
\* C11: over a reachable non-empty list of n keys, move_next repeated from
\* null visits head, then each key in forward order up to tail, then null, and
\* repeats this cycle of n + 1 positions; no position other than null and the
\* n keys of the list is visited.  Two rounds of the cycle are stated.
C11_MoveNextCycles ==
    (~panicked /\ DOMAIN nodes # {}) =>
        LET n == Cardinality(DOMAIN nodes)
            w == MoveNextWalk(None, 2 * (n + 1))
        IN  /\ Range(w) = DOMAIN nodes \cup {None}
            /\ SubSeq(w, 1, n + 1) = Forward \o <<None>>
            /\ SubSeq(w, n + 2, 2 * (n + 1)) = SubSeq(w, 1, n + 1)
            /\ w[1] = head
            /\ w[n] = tail

\* C12: move_next moves a null cursor to the head key (it stays null on an
\* empty list) and a cursor at K to K's successor in forward order, or to null
\* when K is the last key; move_prev mirrors it with the tail key and K's
\* predecessor.
C12_MoveFollowsOrder ==
    ~panicked =>
        \A c \in DOMAIN nodes \cup {None} :
            /\ move_next(CursorAtPos(c)) = Succ(Forward, c)
            /\ move_prev(CursorAtPos(c)) = Pred(Forward, c)

\* C13: with a mutable cursor at a key K of the list, a successful
\* insert_after(k, v) places k immediately after K in forward order and a
\* successful insert_before(k, v) immediately before K; the other keys keep
\* their order and the cursor is still at K.
C13_InsertAtKey ==
    (~panicked /\ cur = "mut" /\ key \in DOMAIN nodes) =>
        \A k \in Keys, v \in Values :
            LET a == insert_after(Cursor, k, v)
                b == insert_before(Cursor, k, v)
                fa == iter_keys(a.nodes, a.head)
                fb == iter_keys(b.nodes, b.head)
            IN  /\ a.ret = RetOk =>
                    /\ a.key = key
                    /\ Succ(fa, key) = k
                    /\ Without(fa, k) = Forward
                /\ b.ret = RetOk =>
                    /\ b.key = key
                    /\ Pred(fb, key) = k
                    /\ Without(fb, k) = Forward

\* C14: at the null position insert_after(k, v) leaves the list as
\* push_front(k, v) does and insert_before(k, v) as push_back(k, v) does, on
\* the empty list too, and the cursor stays null.
C14_NullInsertIsPush ==
    \A k \in Keys, v \in Values :
        /\ insert_after(CursorAtPos(None), k, v) = WithKey(push_front(List, k, v), None)
        /\ insert_before(CursorAtPos(None), k, v) = WithKey(push_back(List, k, v), None)

\* A null mutable cursor has inserted a key into a list that held others, and
\* a further key would be accepted.
C14_Witness ==
    /\ cur = "mut"
    /\ key = None
    /\ ret = RetOk
    /\ Cardinality(DOMAIN nodes) >= 2
    /\ \E k \in Keys : insert_after(Cursor, k, "a").ret = RetOk

\* C15: remove_current with the cursor at a key K of the list removes and
\* returns the pair at K; the cursor is then at the key that followed K in
\* forward order, or null if K was last; the remaining keys keep their order.
C15_RemoveCurrent ==
    (~panicked /\ cur = "mut" /\ key \in DOMAIN nodes) =>
        LET r == remove_current(Cursor)
        IN  /\ ~r.panic
            /\ r.ret = RetSome(key, nodes[key])
            /\ DOMAIN r.nodes = DOMAIN nodes \ {key}
            /\ r.key = Succ(Forward, key)
            /\ iter_keys(r.nodes, r.head) = Without(Forward, key)

\* C16: CursorMut::pop_front on a list that holds keys returns the former
\* front pair; a cursor that was at the front key of a list of two or more
\* keys is afterwards at the new front key (not null), and a cursor at any
\* other position keeps its position.
C16_CursorPopFront ==
    (~panicked /\ cur = "mut" /\ DOMAIN nodes # {}) =>
        LET r == cursor_pop_front(Cursor)
            front == head
        IN  /\ ~r.panic
            /\ front \in DOMAIN nodes
            /\ r.ret = RetSome(front, nodes[front])
            /\ (key = front /\ Cardinality(DOMAIN nodes) >= 2) =>
                    /\ r.key # None
                    /\ r.key = First(iter_keys(r.nodes, r.head))
            /\ key # front => r.key = key

\* C17: CursorMut::pop_back on a list that holds keys returns the former back
\* pair; a cursor that was at the back key is afterwards null, and a cursor at
\* any other position keeps its position.
C17_CursorPopBack ==
    (~panicked /\ cur = "mut" /\ DOMAIN nodes # {}) =>
        LET r == cursor_pop_back(Cursor)
            back == tail
        IN  /\ ~r.panic
            /\ back \in DOMAIN nodes
            /\ r.ret = RetSome(back, nodes[back])
            /\ key = back => r.key = None
            /\ key # back => r.key = key

----------------------------------------------------------------------------
(* The owning iterator.                                                    *)

\* IntoIter::next: pop_front on the list the iterator owns.
IntoIter_next(L) == pop_front(L)

\* The iterator run until next returns None (done), panics, or fuel calls
\* have yielded a pair: the pairs yielded in order and the list left behind.
RECURSIVE IntoIterRun(_, _)
IntoIterRun(L, fuel) ==
    LET r == IntoIter_next(L)
    IN  IF r.panic \/ r.ret = RetNone \/ fuel = 0
        THEN [yielded |-> <<>>, list |-> ListOf(r), panic |-> r.panic,
              done |-> ~r.panic /\ r.ret = RetNone]
        ELSE LET rest == IntoIterRun(ListOf(r), fuel - 1)
             IN  [rest EXCEPT !.yielded = <<(<<r.ret.k, r.ret.value>>)>> \o @]

\* C18: into_iter over a list of N entries yields exactly N pairs in
\* head-to-tail order without failing, and the exhausted list has an empty
\* store, head = None and tail = None.
C18_IntoIterDrains ==
    ~panicked =>
        LET n == Cardinality(DOMAIN nodes)
            run == IntoIterRun(List, n + 1)
        IN  /\ ~run.panic
            /\ run.done
            /\ Len(run.yielded) = n
            /\ run.yielded = iter_pairs(nodes, head)
            /\ DOMAIN run.list.nodes = {}
            /\ run.list.head = None
            /\ run.list.tail = None

\* C19: in every reachable state iter() (and keys(), nodes(), which yield the
\* two halves of its pairs) ends after exactly len() pairs, holds every key
\* of the store once, and starts at head.
C19_IterYieldsLen ==
    ~panicked =>
        LET ps == iter_pairs(nodes, head)
            n == Cardinality(DOMAIN nodes)
        IN  /\ Len(ps) = n
            /\ {ps[i][1] : i \in 1..Len(ps)} = DOMAIN nodes
            /\ \A i \in 1..Len(ps) : ps[i][2] = nodes[ps[i][1]].value
            /\ n > 0 => ps[1][1] = head

----------------------------------------------------------------------------
(* The read accessors of a cursor.                                         *)

\* Option::None of a node reference.
NoNode == [value |-> NoValue, prev |-> None, next |-> None]

\* KeyNodeList::node: the node of the key k, if the store has one.
list_node(ns, k) == IF k \in DOMAIN ns THEN ns[k] ELSE NoNode

\* next_key: head at null, else the next link of the cursor's node.
next_key(C) == IF C.key = None THEN C.head ELSE list_node(C.nodes, C.key).next

\* prev_key: tail at null, else the prev link of the cursor's node.
prev_key(C) == IF C.key = None THEN C.tail ELSE list_node(C.nodes, C.key).prev

\* next_node / prev_node: the node of next_key / prev_key, if there is one.
next_node(C) ==
    IF next_key(C) = None THEN NoNode ELSE list_node(C.nodes, next_key(C))
prev_node(C) ==
    IF prev_key(C) = None THEN NoNode ELSE list_node(C.nodes, prev_key(C))

\* C20: in every reachable state the read accessors of a cursor agree with
\* the list order: next_key() is the first key at null, None at the last key
\* and the successor otherwise; prev_key() is the last key at null, None at
\* the first key and the predecessor otherwise; next_node() and prev_node()
\* are Some exactly when the corresponding key is Some.
C20_AccessorsFollowOrder ==
    ~panicked =>
        \A c \in DOMAIN nodes \cup {None} :
            LET C == CursorAtPos(c)
            IN  /\ next_key(C) = Succ(Forward, c)
                /\ prev_key(C) = Pred(Forward, c)
                /\ next_node(C) # NoNode <=> next_key(C) # None
                /\ prev_node(C) # NoNode <=> prev_key(C) # None

----------------------------------------------------------------------------
\* KeyNodeList::new(): the list as Init has it.
NewList == [nodes |-> <<>>, head |-> None, tail |-> None]

\* C21: clear() from any reachable state empties the store and sets head and
\* tail to None, so that len() is 0 and front_key() / back_key() are None; the
\* list is then the newly created list, on which every operation gives what
\* it gives on a new list.
C21_ClearResets ==
    [][Clear =>
          /\ ~panicked'
          /\ ret' = RetUnit
          /\ Cardinality(DOMAIN nodes') = 0
          /\ head' = None
          /\ tail' = None
          /\ List' = NewList
          /\ Forward' = <<>>]_vars

\* The list is as clear leaves it, after earlier calls and with no cursor.
C21_Witness ==
    /\ List = NewList
    /\ ret = RetUnit
    /\ cur = "none"
    /\ mode = "mixed"
    /\ calls = MaxCalls

\* C22: CursorMut::push_front and CursorMut::push_back change the list and
\* return exactly as the list's own push_front and push_back do, and leave
\* the cursor where it was, at a key or at null.
C22_CursorPushDelegates ==
    (~panicked /\ cur = "mut") =>
        \A k \in Keys, v \in Values :
            /\ cursor_push_front(Cursor, k, v) = WithKey(push_front(List, k, v), key)
            /\ cursor_push_back(Cursor, k, v) = WithKey(push_back(List, k, v), key)

\* A mutable cursor at the last of three keys after a call through it
\* returned Ok(()).
C22_Witness ==
    /\ cur = "mut"
    /\ ret = RetOk
    /\ Cardinality(DOMAIN nodes) = 3
    /\ Len(Forward) = 3
    /\ key = Forward[3]
    /\ key = tail

\* C23: cursor(key) / cursor_mut(key) give a cursor at key when the key is in
\* the list and at null otherwise; cursor_front / cursor_front_mut give a
\* cursor at the first key and cursor_back / cursor_back_mut at the last key,
\* null exactly when the list is empty.
C23_CursorConstructors ==
    [][\A m \in {"shared", "mut"} :
          /\ \A k \in Keys :
                CursorAt(m, k) => key' = IF k \in DOMAIN nodes THEN k ELSE None
          /\ CursorFront(m) =>
                /\ key' = First(Forward)
                /\ key' = None <=> DOMAIN nodes = {}
          /\ CursorBack(m) =>
                /\ key' = Last(Forward)
                /\ key' = None <=> DOMAIN nodes = {}]_vars

\* C24: no sequence of public operations on a list that started empty makes
\* an internal lookup fail: every unwrap in push_front, push_back, pop_front,
\* pop_back, remove, insert_after, insert_before and remove_current finds its
\* key, so no call panics.
C24_NoPanic == ~panicked /\ ret # RetPanic

----------------------------------------------------------------------------
\* What an insertion of the key k with the outcome r may write: the new node,
\* the next link of the node its prev names (head when prev is None) and the
\* prev link of the node its next names (tail when next is None).  Those
\* facing links name the new key, and nothing else differs from the list
\* before.
InsertFrame(r, k) ==
    LET p == r.nodes[k].prev
        n == r.nodes[k].next
    IN  /\ DOMAIN r.nodes = DOMAIN nodes \cup {k}
        /\ \A j \in DOMAIN nodes :
              /\ j # n => r.nodes[j].prev = nodes[j].prev
              /\ j # p => r.nodes[j].next = nodes[j].next
        /\ (p # None /\ p # k) => r.nodes[p].next = k
        /\ (n # None /\ n # k) => r.nodes[n].prev = k
        /\ IF p = None THEN r.head = k ELSE r.head = head
        /\ IF n = None THEN r.tail = k ELSE r.tail = tail

\* C25: a successful push_front, push_back, insert_after or insert_before
\* changes only the new node's links, the link of its immediate predecessor
\* that faces it (head when it has none) and the link of its immediate
\* successor that faces it (tail when it has none); every other prev / next
\* link, and head / tail when the new node is not at that end, stay as they
\* were.
C25_InsertionFrame ==
    /\ (~panicked /\ cur = "none") =>
          \A k \in Keys, v \in Values :
              /\ LET r == push_front(List, k, v)
                 IN  r.ret = RetOk => InsertFrame(r, k)
              /\ LET r == push_back(List, k, v)
                 IN  r.ret = RetOk => InsertFrame(r, k)
    /\ (~panicked /\ cur = "mut") =>
          \A k \in Keys, v \in Values :
              /\ LET r == insert_after(Cursor, k, v)
                 IN  r.ret = RetOk => InsertFrame(r, k)
              /\ LET r == insert_before(Cursor, k, v)
                 IN  r.ret = RetOk => InsertFrame(r, k)

\* A mutable cursor at the middle key of three, all three inserted by
\* successful calls, the last of them through the cursor.
C25_Witness ==
    /\ cur = "mut"
    /\ ret = RetOk
    /\ calls = 3
    /\ Len(Forward) = 3
    /\ key = Forward[2]
    /\ Cardinality(DOMAIN nodes) = 3

\* C26: push and pop at the same end are inverse: from any reachable state
\* and any key k not in the list, push_back(k, v) followed by pop_back returns
\* (k, v) and restores the whole list (store, every prev and next, head,
\* tail), and so does push_front(k, v) followed by pop_front.
C26_PushPopInverse ==
    (~panicked /\ cur = "none") =>
        \A k \in Keys \ DOMAIN nodes, v \in Values :
            /\ LET r == pop_back(ListOf(push_back(List, k, v)))
               IN  /\ ~r.panic
                   /\ r.ret = RetSome(k, ValueNode_new(v))
                   /\ ListOf(r) = List
            /\ LET r == pop_front(ListOf(push_front(List, k, v)))
               IN  /\ ~r.panic
                   /\ r.ret = RetSome(k, ValueNode_new(v))
                   /\ ListOf(r) = List

\* C27: cursor movement is reversible in every reachable list state: from
\* null or a key of the list, move_next followed by move_prev returns the
\* cursor to where it started, and so does move_prev followed by move_next.
C27_MoveReversible ==
    ~panicked =>
        \A c \in DOMAIN nodes \cup {None} :
            /\ move_prev(CursorAtPos(move_next(CursorAtPos(c)))) = c
            /\ move_next(CursorAtPos(move_prev(CursorAtPos(c)))) = c

----------------------------------------------------------------------------
(* Extend, From, FromIterator and PartialEq (src/src/list.rs).             *)

\* Extend<(K, T)>::extend: push_back of each pair in turn, the result of the
\* push dropped; a panic of a push ends the call.
RECURSIVE extend(_, _)
extend(L, ps) ==
    IF ps = <<>> THEN Res(L.nodes, L.head, L.tail, RetUnit)
    ELSE LET r == push_back(L, ps[1][1], ps[1][2])
         IN  IF r.panic THEN r ELSE extend(ListOf(r), Tail(ps))

\* FromIterator<(K, T)>::from_iter (and From<[(K, T); LEN]>, which collects):
\* a new list extended with the pairs.
from_iter(ps) == extend(NewList, ps)

\* PartialEq::eq: the two stores are equal, nodes with their links.
list_eq(A, B) == A.nodes = B.nodes

\* The sequences of pairs handed to extend and from_iter.
MaxPairs == 2
PairSeqs == UNION {[1..n -> Keys \X Values] : n \in 0..MaxPairs}

\* C28: list equality agrees with content and order: two lists reached by
\* sequences of operations are equal exactly when forward traversal of both
\* yields the same sequence of pairs.  The second list is any list built from
\* a sequence of pairs, the pairs of the first list among them.
C28_EqAgreesWithOrder ==
    ~panicked =>
        \A ps \in PairSeqs \cup {iter_pairs(nodes, head)} :
            LET B == ListOf(from_iter(ps))
            IN  list_eq(List, B) <=>
                    iter_pairs(nodes, head) = iter_pairs(B.nodes, B.head)

----------------------------------------------------------------------------
\* The outcome r adds exactly the key k with the value v to the store.
AddsOnly(r, k, v) ==
    /\ k \notin DOMAIN nodes
    /\ DOMAIN r.nodes = DOMAIN nodes \cup {k}
    /\ r.nodes[k].value = v
    /\ \A j \in DOMAIN nodes : r.nodes[j].value = nodes[j].value
    /\ Cardinality(DOMAIN r.nodes) = Cardinality(DOMAIN nodes) + 1

\* The outcome r deletes exactly the key it returns, with its value.
DeletesOnly(r) ==
    /\ r.ret.k \in DOMAIN nodes
    /\ r.ret.value = nodes[r.ret.k].value
    /\ DOMAIN r.nodes = DOMAIN nodes \ {r.ret.k}
    /\ \A j \in DOMAIN r.nodes : r.nodes[j].value = nodes[j].value
    /\ Cardinality(DOMAIN r.nodes) = Cardinality(DOMAIN nodes) - 1

\* C29: a structural operation affects only the key it names: a successful
\* push or insert adds exactly that key with the given value, a successful
\* pop, remove or remove_current deletes exactly the returned key; the other
\* keys and their payloads are unchanged and len() changes by +1 or -1.
C29_OnlyNamedKey ==
    /\ (~panicked /\ cur = "none") =>
          /\ \A k \in Keys, v \in Values :
                /\ LET r == push_front(List, k, v)
                   IN  r.ret = RetOk => AddsOnly(r, k, v)
                /\ LET r == push_back(List, k, v)
                   IN  r.ret = RetOk => AddsOnly(r, k, v)
          /\ \A k \in Keys :
                LET r == remove(List, k)
                IN  r.ret.kind = "Some" => (r.ret.k = k /\ DeletesOnly(r))
          /\ LET r == pop_front(List) IN r.ret.kind = "Some" => DeletesOnly(r)
          /\ LET r == pop_back(List) IN r.ret.kind = "Some" => DeletesOnly(r)
    /\ (~panicked /\ cur = "mut") =>
          /\ \A k \in Keys, v \in Values :
                /\ LET r == insert_after(Cursor, k, v)
                   IN  r.ret = RetOk => AddsOnly(r, k, v)
                /\ LET r == insert_before(Cursor, k, v)
                   IN  r.ret = RetOk => AddsOnly(r, k, v)
          /\ LET r == remove_current(Cursor)
             IN  r.ret.kind = "Some" => (r.ret.k = key /\ DeletesOnly(r))

\* A call through a mutable cursor has removed and returned a key of a list
\* that keeps two or more others.
C29_Witness ==
    /\ cur = "mut"
    /\ ~panicked
    /\ ret.kind = "Some"
    /\ ret.k \notin DOMAIN nodes
    /\ Cardinality(DOMAIN nodes) >= 2

----------------------------------------------------------------------------
\* The pairs of ps whose key is neither in seen nor earlier in ps.
RECURSIVE FirstOccurrences(_, _)
FirstOccurrences(ps, seen) ==
    IF ps = <<>> THEN <<>>
    ELSE IF ps[1][1] \in seen THEN FirstOccurrences(Tail(ps), seen)
    ELSE <<ps[1]>> \o FirstOccurrences(Tail(ps), seen \cup {ps[1][1]})

\* The invariants of a list L: the walk from head covers the store once and
\* ends at tail, and prev mirrors next.
WellFormed(L) ==
    LET f == iter_keys(L.nodes, L.head)
    IN  /\ Len(f) = Cardinality(DOMAIN L.nodes)
        /\ Range(f) = DOMAIN L.nodes
        /\ L.head = First(f)
        /\ L.tail = Last(f)
        /\ \A i \in 1..Len(f) :
              /\ L.nodes[f[i]].prev = IF i = 1 THEN None ELSE f[i - 1]
              /\ L.nodes[f[i]].next = IF i = Len(f) THEN None ELSE f[i + 1]

\* C30: extend (and construction from an array or iterator) appends the given
\* pairs at the back in the order supplied and skips a pair whose key is
\* already in the list, so a key keeps the position and value of its first
\* occurrence; from an empty list front_key is the first and back_key the last
\* distinct key supplied, and the list invariants hold afterwards.
C30_ExtendAppends ==
    (~panicked /\ cur = "none") =>
        \A ps \in PairSeqs :
            LET r == extend(List, ps)
                added == FirstOccurrences(ps, DOMAIN nodes)
            IN  /\ ~r.panic
                /\ iter_pairs(r.nodes, r.head) = iter_pairs(nodes, head) \o added
                /\ WellFormed(ListOf(r))
                /\ (DOMAIN nodes = {} /\ added # <<>>) =>
                      /\ r.head = added[1][1]
                      /\ r.tail = added[Len(added)][1]

====
